---- MODULE Spec2Model ----
(***************************************************************************)
(* howufeel-backend: the template renderer (TemplateProcessor.process),    *)
(* the template store (TemplateService), the mail service (MailService)    *)
(* and the three mail endpoints (MailSend, MailValidate,                   *)
(* GroupAnnouncement).                                                     *)
(*                                                                         *)
(* Text is modelled as a sequence of one-character strings, so that the    *)
(* regular-expression scans of the renderer and the string formatting of   *)
(* the handlers are computed character by character.                       *)
(*                                                                         *)
(* Spec is the worker handling one request after the other; FairSpec is    *)
(* Spec when everything a recipient's unit awaits settles in the end;      *)
(* ServiceSpec is a caller of the services' own methods, one call after    *)
(* the other.                                                              *)
(***************************************************************************)
EXTENDS Integers, Sequences, FiniteSets, TLC

\* ------------------------------------------------------------------ bounds

\* Longest recipient list a modelled group-announcement request carries.
MaxRecipients == 2

\* ------------------------------------------------------- JavaScript values

Str(s) == [t |-> "string", s |-> s]
Num(n) == [t |-> "number", n |-> n]
Bool(b) == [t |-> "boolean", b |-> b]
Undefined == [t |-> "undefined"]
Null == [t |-> "null"]

IsString(v) == v.t = "string"
IsNumber(v) == v.t = "number"

Digit == <<"0", "1", "2", "3", "4", "5", "6", "7", "8", "9">>

RECURSIVE NumberToString(_)
\* Number.prototype.toString() on a non-negative integer.
NumberToString(n) ==
  IF n < 10 THEN <<Digit[n + 1]>>
  ELSE NumberToString(n \div 10) \o <<Digit[(n % 10) + 1]>>

\* JavaScript truthiness of a scalar.
Truthy(v) ==
  CASE v.t = "string" -> v.s # <<>>
    [] v.t = "number" -> v.n # 0
    [] v.t = "boolean" -> v.b
    [] OTHER -> FALSE

\* String(v) for a scalar.
ToStringValue(v) ==
  CASE v.t = "string" -> v.s
    [] v.t = "number" -> NumberToString(v.n)
    [] v.t = "boolean" -> IF v.b THEN <<"t", "r", "u", "e">>
                                  ELSE <<"f", "a", "l", "s", "e">>
    [] v.t = "null" -> <<"n", "u", "l", "l">>
    [] OTHER -> <<"u", "n", "d", "e", "f", "i", "n", "e", "d">>

\* ------------------------------------------------------------ text helpers

StartsWithAt(s, p, pat) ==
  /\ p >= 1
  /\ p + Len(pat) - 1 <= Len(s)
  /\ \A k \in 1..Len(pat) : s[p + k - 1] = pat[k]

\* First position >= from at which the non-empty pat occurs in s, 0 when there
\* is none.
IndexOf(s, pat, from) ==
  LET cands == {p \in from..(Len(s) - Len(pat) + 1) :
                  s[p] = pat[1] /\ StartsWithAt(s, p, pat)}
  IN IF cands = {} THEN 0 ELSE CHOOSE p \in cands : \A q \in cands : p <= q

\* First position >= from holding the character ch, 0 when there is none.
IndexOfChar(s, ch, from) ==
  LET cands == {p \in from..Len(s) : s[p] = ch}
  IN IF cands = {} THEN 0 ELSE CHOOSE p \in cands : \A q \in cands : p <= q

Tail2(s, from) == SubSeq(s, from, Len(s))

OpenBrace == <<"{", "{">>
CloseBrace == <<"}", "}">>

\* ------------------------------------------ TemplateProcessor (mailService)

\* The text of the marker {{<prefix><key>}}.
Marker(prefix, key) == OpenBrace \o prefix \o key \o CloseBrace

RECURSIVE ReplaceBlocks(_, _, _, _)
\* processed.replace(/{{#key}}([\s\S]*?){{\/key}}/g, keep ? '$1' : ''):
\* leftmost opening marker, shortest body up to the next closing marker,
\* the scan resuming after the match.
ReplaceBlocks(s, open, close, keep) ==
  LET o == IndexOf(s, open, 1)
      c == IF o = 0 THEN 0 ELSE IndexOf(s, close, o + Len(open))
  IN IF o = 0 \/ c = 0 THEN s
     ELSE SubSeq(s, 1, o - 1)
          \o (IF keep THEN SubSeq(s, o + Len(open), c - 1) ELSE <<>>)
          \o ReplaceBlocks(Tail2(s, c + Len(close)), open, close, keep)

\* The truthiness test of the conditional pass: value && value !== ''.
ConditionHolds(value) == Truthy(value) /\ value # Str(<<>>)

\* One iteration of the first Object.entries(data).forEach.
ProcessConditional(s, entry) ==
  ReplaceBlocks(s, Marker(<<"#">>, entry.key), Marker(<<"/">>, entry.key),
                ConditionHolds(entry.value))

\* End (last position) of a match of \{\{<sigil>[^}]+\}\} starting at p, 0 when
\* there is no match at p; sigil is <<"#">>, <<"/">> or <<>>.
MarkerEndAt(s, p, sigil) ==
  LET n == p + 2 + Len(sigil)
      e == IndexOfChar(s, "}", n)
  IN IF /\ StartsWithAt(s, p, OpenBrace \o sigil)
        /\ e > n
        /\ StartsWithAt(s, e, CloseBrace)
     THEN e + 1 ELSE 0

\* First position >= from where \{\{<sigil>[^}]+\}\} matches, 0 when none.
FindMarker(s, sigil, from) ==
  LET cands == {p \in from..Len(s) : s[p] = "{" /\ MarkerEndAt(s, p, sigil) # 0}
  IN IF cands = {} THEN 0 ELSE CHOOSE p \in cands : \A q \in cands : p <= q

RECURSIVE RemoveRemainingBlocks(_)
\* processed.replace(/\{\{#[^}]+\}\}[\s\S]*?\{\{\/[^}]+\}\}/g, '')
RemoveRemainingBlocks(s) ==
  LET o == FindMarker(s, <<"#">>, 1)
      c == IF o = 0 THEN 0 ELSE FindMarker(s, <<"/">>, MarkerEndAt(s, o, <<"#">>) + 1)
  IN IF o = 0 \/ c = 0 THEN s
     ELSE SubSeq(s, 1, o - 1)
          \o RemoveRemainingBlocks(Tail2(s, MarkerEndAt(s, c, <<"/">>) + 1))

RECURSIVE ExpandReplacement(_, _, _)
\* The replacement-string patterns of String.prototype.replace for a pattern
\* without capture groups: $$, $& and $' are special, any other $ is kept
\* (the backquote of the fourth pattern is not a character of the model).
ExpandReplacement(repl, matched, after) ==
  IF repl = <<>> THEN <<>>
  ELSE IF repl[1] = "$" /\ Len(repl) >= 2 /\ repl[2] \in {"$", "&", "'"}
       THEN (CASE repl[2] = "$" -> <<"$">>
               [] repl[2] = "&" -> matched
               [] OTHER -> after)
            \o ExpandReplacement(Tail2(repl, 3), matched, after)
       ELSE <<repl[1]>> \o ExpandReplacement(Tail2(repl, 2), matched, after)

\* Variant of ReplaceAllFrom: the pattern without the g flag, only the first
\* occurrence is replaced.
ReplaceFirstFrom(s, pat, repl, from) ==
  LET o == IndexOf(s, pat, from)
  IN IF o = 0 THEN Tail2(s, from)
     ELSE SubSeq(s, from, o - 1)
          \o ExpandReplacement(repl, pat, Tail2(s, o + Len(pat)))
          \o Tail2(s, o + Len(pat))

RECURSIVE ReplaceAllFrom(_, _, _, _)
\* s.replace(new RegExp(pat, 'g'), repl) for a literal pattern pat, the scan
\* being at position from of the whole subject s.
ReplaceAllFrom(s, pat, repl, from) ==
  LET o == IndexOf(s, pat, from)
  IN IF o = 0 THEN Tail2(s, from)
     ELSE SubSeq(s, from, o - 1)
          \o ExpandReplacement(repl, pat, Tail2(s, o + Len(pat)))
          \o ReplaceAllFrom(s, pat, repl, o + Len(pat))

\* String(value || '')
SubstitutedText(value) == IF Truthy(value) THEN ToStringValue(value) ELSE <<>>

\* One iteration of the second Object.entries(data).forEach.
ProcessVariable(s, entry) ==
  ReplaceAllFrom(s, Marker(<<>>, entry.key), SubstitutedText(entry.value), 1)

RECURSIVE RemoveRemainingVariables(_)
\* processed.replace(/\{\{[^}]+\}\}/g, '')
RemoveRemainingVariables(s) ==
  LET o == FindMarker(s, <<>>, 1)
  IN IF o = 0 THEN s
     ELSE SubSeq(s, 1, o - 1)
          \o RemoveRemainingVariables(Tail2(s, MarkerEndAt(s, o, <<>>) + 1))

RECURSIVE ProcessConditionals(_, _, _)
\* The first Object.entries(data).forEach, from entry i on; data is the
\* sequence of entries in insertion order.
ProcessConditionals(s, data, i) ==
  IF i > Len(data) THEN s
  ELSE ProcessConditionals(ProcessConditional(s, data[i]), data, i + 1)

RECURSIVE ProcessVariables(_, _, _)
\* The second Object.entries(data).forEach, from entry i on.
ProcessVariables(s, data, i) ==
  IF i > Len(data) THEN s
  ELSE ProcessVariables(ProcessVariable(s, data[i]), data, i + 1)

\* TemplateProcessor.process(template, data)
Process(template, data) ==
  LET afterConditionals == ProcessConditionals(template, data, 1)
      afterCleanup == RemoveRemainingBlocks(afterConditionals)
      afterVariables == ProcessVariables(afterCleanup, data, 1)
  IN RemoveRemainingVariables(afterVariables)

\* "Invalid regular expression", the start of the message of the SyntaxError
\* new RegExp throws (the rest of the message is the engine's)
InvalidRegularExpression ==
  <<"I", "n", "v", "a", "l", "i", "d", " ", "r", "e", "g", "u", "l", "a",
    "r", " ", "e", "x", "p", "r", "e", "s", "s", "i", "o", "n">>

\* new RegExp(`{{#${key}}}([\\s\\S]*?){{/${key}}}`, 'g') throws: the key is
\* part of the pattern's source, and a key that opens a group leaves it
\* unterminated. The keys of the model hold no other character of the
\* regular-expression syntax.
RegExpThrows(key) == \E i \in 1..Len(key) : key[i] = "("

\* TemplateProcessor.process throws: the first forEach builds a regular
\* expression from every key, and throws at the first one new RegExp rejects.
ProcessThrows(data) == \E i \in 1..Len(data) : RegExpThrows(data[i].key)

\* What a call of TemplateProcessor.process does: it returns the processed
\* text or throws.
ProcessResult(template, data) ==
  IF ProcessThrows(data)
  THEN [t |-> "throw", message |-> InvalidRegularExpression]
  ELSE Str(Process(template, data))

\* An array value, and what JSON.stringify keeps of an object: the keys whose
\* value is not undefined.
Arr(a) == [t |-> "array", a |-> a]
Json(obj) == [k \in {x \in DOMAIN obj : obj[x].t # "undefined"} |-> obj[k]]

\* text.includes(part)
Includes(text, part) == IndexOf(text, part, 1) # 0

\* ------------------------------------------------------------------- texts

\* "group", the one key of AVAILABLE_TEMPLATES
TemplateGroup ==
  <<"g", "r", "o", "u", "p">>

\* "group.html", AVAILABLE_TEMPLATES.group
FileGroupHtml ==
  <<"g", "r", "o", "u", "p", ".", "h", "t", "m", "l">>

\* "invalid-template", a name that is no key of AVAILABLE_TEMPLATES
TemplateInvalid ==
  <<"i", "n", "v", "a", "l", "i", "d", "-", "t", "e", "m", "p", "l", "a",
    "t", "e">>

\* "ceo@howufeelingtoday.online"
FromAddress ==
  <<"c", "e", "o", "@", "h", "o", "w", "u", "f", "e", "e", "l", "i", "n",
    "g", "t", "o", "d", "a", "y", ".", "o", "n", "l", "i", "n", "e">>

\* "group_name"
KeyGroupName ==
  <<"g", "r", "o", "u", "p", "_", "n", "a", "m", "e">>

\* "to_name"
KeyToName ==
  <<"t", "o", "_", "n", "a", "m", "e">>

\* "from_name"
KeyFromName ==
  <<"f", "r", "o", "m", "_", "n", "a", "m", "e">>

\* "rating"
KeyRating ==
  <<"r", "a", "t", "i", "n", "g">>

\* "message"
KeyMessage ==
  <<"m", "e", "s", "s", "a", "g", "e">>

\* "note"
KeyNote ==
  <<"n", "o", "t", "e">>

\* "Mood Update in "
SubjectPrefix ==
  <<"M", "o", "o", "d", " ", "U", "p", "d", "a", "t", "e", " ", "i", "n",
    " ">>

\* "msg-"
MsgPrefix ==
  <<"m", "s", "g", "-">>

\* "Invalid template name. Available templates: "
InvalidTemplateNamePrefix ==
  <<"I", "n", "v", "a", "l", "i", "d", " ", "t", "e", "m", "p", "l", "a",
    "t", "e", " ", "n", "a", "m", "e", ".", " ", "A", "v", "a", "i", "l",
    "a", "b", "l", "e", " ", "t", "e", "m", "p", "l", "a", "t", "e", "s",
    ":", " ">>

\* "Invalid template name"
InvalidTemplateName ==
  <<"I", "n", "v", "a", "l", "i", "d", " ", "t", "e", "m", "p", "l", "a",
    "t", "e", " ", "n", "a", "m", "e">>

\* "Template validation failed: "
ValidationFailedPrefix ==
  <<"T", "e", "m", "p", "l", "a", "t", "e", " ", "v", "a", "l", "i", "d",
    "a", "t", "i", "o", "n", " ", "f", "a", "i", "l", "e", "d", ":", " ">>

\* "Failed to load template "
FailedToLoadPrefix ==
  <<"F", "a", "i", "l", "e", "d", " ", "t", "o", " ", "l", "o", "a", "d",
    " ", "t", "e", "m", "p", "l", "a", "t", "e", " ">>

\* "Error: Template file ", String(error) of the Error readTemplateFile throws
NotFoundPrefix ==
  <<"E", "r", "r", "o", "r", ":", " ", "T", "e", "m", "p", "l", "a", "t",
    "e", " ", "f", "i", "l", "e", " ">>

\* " not found"
NotFoundSuffix ==
  <<" ", "n", "o", "t", " ", "f", "o", "u", "n", "d">>

\* "Template not found", what the test of an invalid name expects in the error
TemplateNotFound ==
  <<"T", "e", "m", "p", "l", "a", "t", "e", " ", "n", "o", "t", " ", "f",
    "o", "u", "n", "d">>

\* "Missing required", what the tests of an incomplete data object expect
MissingRequired ==
  <<"M", "i", "s", "s", "i", "n", "g", " ", "r", "e", "q", "u", "i", "r",
    "e", "d">>

\* The message of the ZodError a failed schema.parse throws (abridged)
ZodErrorMessage ==
  <<"I", "n", "v", "a", "l", "i", "d", " ", "i", "n", "p", "u", "t">>

\* The message of the error WorkerMailer.connect raises (transport-defined)
ConnectError ==
  <<"c", "o", "n", "n", "e", "c", "t", " ", "f", "a", "i", "l", "e", "d">>

\* The message of the error mailer.send raises (transport-defined)
SendError ==
  <<"s", "e", "n", "d", " ", "f", "a", "i", "l", "e", "d">>

\* Request inputs: two well-formed addresses, a malformed one, display names
EmailJohn ==
  <<"j", "@", "x", ".", "i", "o">>

\* "k@x.io"
EmailJane ==
  <<"k", "@", "x", ".", "i", "o">>

\* "invalid-email"
EmailInvalid ==
  <<"i", "n", "v", "a", "l", "i", "d", "-", "e", "m", "a", "i", "l">>

\* "Jo"
NameJohn ==
  <<"J", "o">>

\* "Al"
NameJane ==
  <<"A", "l">>

\* "Dev"
GroupName ==
  <<"D", "e", "v">>

\* "ok!"
MessageText ==
  <<"o", "k", "!">>

\* "day"
NoteText ==
  <<"d", "a", "y">>

\* "Hi"
SubjectText ==
  <<"H", "i">>

\* "2025"
Timestamp ==
  <<"2", "0", "2", "5">>

\* "rating"
EventName ==
  <<"r", "a", "t", "i", "n", "g">>

\* "invalid-rating"
InvalidRating ==
  <<"i", "n", "v", "a", "l", "i", "d", "-", "r", "a", "t", "i", "n", "g">>

\* The group.html blob of the KV namespace, its markup between the markers
\* abridged: the markers, their order and the note block are those of the blob.
KvGroupTemplate ==
  <<"{", "{", "g", "r", "o", "u", "p", "_", "n", "a", "m", "e", "}", "}",
    "|", "{", "{", "g", "r", "o", "u", "p", "_", "n", "a", "m", "e", "}",
    "}", " ", "{", "{", "t", "o", "_", "n", "a", "m", "e", "}", "}", ",",
    "{", "{", "f", "r", "o", "m", "_", "n", "a", "m", "e", "}", "}", ":",
    "{", "{", "r", "a", "t", "i", "n", "g", "}", "}", " ", "/", " ", "1",
    "0", " ", "-", " ", "{", "{", "m", "e", "s", "s", "a", "g", "e", "}",
    "}", "{", "{", "#", "n", "o", "t", "e", "}", "}", "(", "{", "{", "n",
    "o", "t", "e", "}", "}", ")", "{", "{", "/", "n", "o", "t", "e", "}",
    "}">>

\* The compiled-in group.html of readTemplateFile, abridged the same way. It
\* differs from the KV blob in the dash between rating and message, which the
\* source holds mis-encoded (three characters, here a, E, -).
FallbackGroupTemplate ==
  <<"{", "{", "g", "r", "o", "u", "p", "_", "n", "a", "m", "e", "}", "}",
    "|", "{", "{", "g", "r", "o", "u", "p", "_", "n", "a", "m", "e", "}",
    "}", " ", "{", "{", "t", "o", "_", "n", "a", "m", "e", "}", "}", ",",
    "{", "{", "f", "r", "o", "m", "_", "n", "a", "m", "e", "}", "}", ":",
    "{", "{", "r", "a", "t", "i", "n", "g", "}", "}", " ", "/", " ", "1",
    "0", " ", "a", "E", "-", " ", "{", "{", "m", "e", "s", "s", "a", "g",
    "e", "}", "}", "{", "{", "#", "n", "o", "t", "e", "}", "}", "(", "{",
    "{", "n", "o", "t", "e", "}", "}", ")", "{", "{", "/", "n", "o", "t",
    "e", "}", "}">>

\* ----------------------------------------------------- schemas (zod, base)

\* The character classes of zod's e-mail pattern (matched with the i flag).
Letters ==
  {"a", "b", "c", "d", "e", "f", "g", "h", "i", "j", "k", "l", "m", "n",
   "o", "p", "q", "r", "s", "t", "u", "v", "w", "x", "y", "z",
   "A", "B", "C", "D", "E", "F", "G", "H", "I", "J", "K", "L", "M", "N",
   "O", "P", "Q", "R", "S", "T", "U", "V", "W", "X", "Y", "Z"}
DigitChars == {"0", "1", "2", "3", "4", "5", "6", "7", "8", "9"}

\* z.string().email(), the pattern
\* ^(?!\.)(?!.*\.\.)([A-Z0-9_'+\-\.]*)[A-Z0-9_+-]@([A-Z0-9][A-Z0-9\-]*\.)+[A-Z]{2,}$
\* with the i flag: no dot at the start and no two dots in a row; a local
\* part of the local characters that does not end with a dot or a quote; one
\* @; a domain of one label or more, each starting with a letter or a digit
\* and followed by a dot, and a last label of two letters or more.
IsEmail(s) ==
  LET LocalEndChars == Letters \cup DigitChars \cup {"_", "+", "-"}
      LocalChars == LocalEndChars \cup {"'", "."}
      LabelStartChars == Letters \cup DigitChars
      LabelChars == LabelStartChars \cup {"-"}
      at == IndexOfChar(s, "@", 1)
      domain == Tail2(s, at + 1)
      dots == {p \in 1..Len(domain) : domain[p] = "."}
      lastDot == CHOOSE d \in dots : \A e \in dots : e <= d
  IN /\ at > 1
     /\ s[1] # "."
     /\ \A p \in 1..(Len(s) - 1) : ~(s[p] = "." /\ s[p + 1] = ".")
     /\ \A p \in 1..(at - 1) : s[p] \in LocalChars
     /\ s[at - 1] \in LocalEndChars
     /\ dots # {}
     /\ \A p \in 1..lastDot : domain[p] \in LabelChars \cup {"."}
     /\ \A p \in 1..lastDot :
          (p = 1 \/ domain[p - 1] = ".") => domain[p] \in LabelStartChars
     /\ Len(domain) - lastDot >= 2
     /\ \A p \in (lastDot + 1)..Len(domain) : domain[p] \in Letters

\* One element of data.recipients against its object schema.
RecipientValid(r) ==
  /\ IsString(r.to_email) /\ IsEmail(r.to_email.s)
  /\ IsString(r.to_name)

\* Variant of GroupAnnouncementSchemaValid: the elements of data.recipients
\* are not checked with the body, each is left to its own unit.
GroupAnnouncementSchemaLax(body) ==
  /\ IsString(body.data.from_name)
  /\ IsString(body.data.group_name)
  /\ IsNumber(body.data.rating)
  /\ body.data.rating.n >= 0 /\ body.data.rating.n <= 10
  /\ IsString(body.data.message)
  /\ (body.data.note.t = "undefined" \/ IsString(body.data.note))
  /\ IsString(body.timestamp)

\* groupAnnouncementSchema.parse(body) does not throw.
GroupAnnouncementSchemaValid(body) ==
  /\ IsString(body.data.from_name)
  /\ IsString(body.data.group_name)
  /\ IsNumber(body.data.rating)
  /\ body.data.rating.n >= 0 /\ body.data.rating.n <= 10
  /\ IsString(body.data.message)
  /\ (body.data.note.t = "undefined" \/ IsString(body.data.note))
  /\ \A i \in 1..Len(body.data.recipients) : RecipientValid(body.data.recipients[i])
  /\ IsString(body.timestamp)
  /\ IsString(body.event)

\* mailSendRequest.parse(body) does not throw.
MailSendRequestValid(body) ==
  /\ IsString(body.to) /\ IsEmail(body.to.s)
  /\ IsString(body.subject) /\ Len(body.subject.s) >= 1
  /\ IsString(body.template_name) /\ Len(body.template_name.s) >= 1
  /\ body.template_data.t = "record"

\* mailValidateRequest.parse(body) does not throw.
MailValidateRequestValid(body) ==
  /\ IsString(body.template_name) /\ Len(body.template_name.s) >= 1
  /\ body.template_data.t = "record"

\* mailConfigSchema.parse(config) does not throw.
MailConfigValid(config) == IsEmail(config.from) /\ IsEmail(config.to)

\* --------------------------------------------------------- TemplateService

\* Object.keys(AVAILABLE_TEMPLATES)
GetAvailableTemplates == <<TemplateGroup>>

\* Variant of IsAvailableTemplate: the name is not checked.
AnyTemplateName(name) == TRUE

\* availableTemplates.includes(name)
IsAvailableTemplate(name) ==
  \E i \in 1..Len(GetAvailableTemplates) : GetAvailableTemplates[i] = name

RECURSIVE JoinFrom(_, _, _)
\* names.join(sep), from element i on.
JoinFrom(names, sep, i) ==
  IF i > Len(names) THEN <<>>
  ELSE IF i = Len(names) THEN names[i]
  ELSE names[i] \o sep \o JoinFrom(names, sep, i + 1)

\* The error text of the two handlers for a name that is not available.
InvalidTemplateNameError ==
  InvalidTemplateNamePrefix \o JoinFrom(GetAvailableTemplates, <<",", " ">>, 1)

\* "toString", "constructor" and "__proto__", names AVAILABLE_TEMPLATES
\* inherits from Object.prototype
NameToString ==
  <<"t", "o", "S", "t", "r", "i", "n", "g">>

NameConstructor ==
  <<"c", "o", "n", "s", "t", "r", "u", "c", "t", "o", "r">>

NameProto ==
  <<"_", "_", "p", "r", "o", "t", "o", "_", "_">>

\* The names of the functions an object literal inherits from Object.prototype.
ObjectPrototypeFunctions ==
  {<<"c", "o", "n", "s", "t", "r", "u", "c", "t", "o", "r">>,
   <<"t", "o", "S", "t", "r", "i", "n", "g">>,
   <<"t", "o", "L", "o", "c", "a", "l", "e", "S", "t", "r", "i", "n", "g">>,
   <<"v", "a", "l", "u", "e", "O", "f">>,
   <<"h", "a", "s", "O", "w", "n", "P", "r", "o", "p", "e", "r", "t", "y">>,
   <<"i", "s", "P", "r", "o", "t", "o", "t", "y", "p", "e", "O", "f">>,
   <<"p", "r", "o", "p", "e", "r", "t", "y", "I", "s", "E", "n", "u", "m", "e", "r", "a", "b", "l", "e">>,
   <<"_", "_", "d", "e", "f", "i", "n", "e", "G", "e", "t", "t", "e", "r", "_", "_">>,
   <<"_", "_", "d", "e", "f", "i", "n", "e", "S", "e", "t", "t", "e", "r", "_", "_">>,
   <<"_", "_", "l", "o", "o", "k", "u", "p", "G", "e", "t", "t", "e", "r", "_", "_">>,
   <<"_", "_", "l", "o", "o", "k", "u", "p", "S", "e", "t", "t", "e", "r", "_", "_">>}

\* AVAILABLE_TEMPLATES[templateName], as the text it has in a file name or a
\* message. The read is a plain property read of an object literal: the file
\* of a known name, the inherited member for a name of Object.prototype (a
\* built-in function, or Object.prototype itself for __proto__), undefined
\* for any other name.
\* String(f) of a built-in function f is "function <its name>() { [native
\* code] }", the constructor's name being Object; String(Object.prototype) is
\* "[object Object]".
TemplateFile(templateName) ==
  LET FunctionPrefix == <<"f", "u", "n", "c", "t", "i", "o", "n", " ">>
      NativeCodeSuffix ==
        <<"(", ")", " ", "{", " ", "[", "n", "a", "t", "i", "v", "e", " ",
          "c", "o", "d", "e", "]", " ", "}">>
      NameObject == <<"O", "b", "j", "e", "c", "t">>
      ObjectObject ==
        <<"[", "o", "b", "j", "e", "c", "t", " ", "O", "b", "j", "e", "c",
          "t", "]">>
  IN IF templateName = TemplateGroup THEN FileGroupHtml
     ELSE IF templateName = NameProto THEN ObjectObject
     ELSE IF templateName \in ObjectPrototypeFunctions
     THEN FunctionPrefix
          \o (IF templateName = NameConstructor THEN NameObject ELSE templateName)
          \o NativeCodeSuffix
     ELSE ToStringValue(Undefined)

\* What env.TEMPLATES_KV.get(filename) can do: resolve to the text stored
\* under the key (the namespace stores group.html only), resolve to null, or
\* reject. Unbound stands for an env without TEMPLATES_KV.
KvGetResults(bound, filename) ==
  IF ~bound THEN {[t |-> "unbound"]}
  ELSE {Null, [t |-> "throw"]}
       \cup (IF filename = FileGroupHtml THEN {Str(KvGroupTemplate)} ELSE {})

\* Variant of ReadTemplateFile: no compiled-in template, the KV text or the
\* "not found" error.
ReadTemplateFileNoFallback(filename, kvResult) ==
  IF kvResult.t = "string" /\ Truthy(kvResult) THEN kvResult
  ELSE [t |-> "throw", message |-> NotFoundPrefix \o filename \o NotFoundSuffix]

\* readTemplateFile(filename, env), given what the KV lookup did: the stored
\* text when it is truthy, else the compiled-in template of group.html, else
\* the "not found" error (t = "throw").
ReadTemplateFile(filename, kvResult) ==
  IF kvResult.t = "string" /\ Truthy(kvResult) THEN kvResult
  ELSE IF filename = FileGroupHtml THEN Str(FallbackGroupTemplate)
  ELSE [t |-> "throw", message |-> NotFoundPrefix \o filename \o NotFoundSuffix]

\* templateCache.set(cacheKey, template)
CacheSet(cache, cacheKey, template) ==
  [k \in DOMAIN cache \cup {cacheKey} |->
     IF k = cacheKey THEN template ELSE cache[k]]

\* ------------------------------------------------------------- MailService

\* The two shapes sendMail resolves to.
SendSuccess(messageId) ==
  [success |-> TRUE, messageId |-> Str(messageId), error |-> Undefined]

\* Variant of SendFailure: the error of the catch is not reported.
SendFailureNoError(message) ==
  [success |-> FALSE, messageId |-> Undefined, error |-> Undefined]

SendFailure(message) ==
  [success |-> FALSE, messageId |-> Undefined, error |-> Str(message)]

\* `msg-${Date.now()}-${Math.random().toString(36).substr(2, 9)}`
MessageId(now, rand) == MsgPrefix \o NumberToString(now) \o <<"-">> \o rand

\* Values of Date.now() and of the random suffix at the sends of a run.
Times == {7}
RandomSuffixes == {<<"a">>, <<"b">>}

\* ------------------------------------------------------------------- state

VARIABLES
  templateCache,  \* TemplateService.templateCache: file name -> template text
  kvBound,        \* whether env.TEMPLATES_KV is bound
  pc,             \* where the handler of the current request stands
  endpoint,       \* the route of the current request
  body,           \* the parsed JSON body of the current request
  units,          \* one unit of work per recipient (per request for /send,
                  \* /validate): its position, the mail it sends, what the
                  \* transport did with it, and what its callback returned
  calls,          \* calls made while handling the current request
  response,       \* the response of the current request
  invocation,     \* the call a caller other than a handler makes on a service
                  \* (TemplateProcessor, TemplateService, MailService): the
                  \* method, its arguments and where it stands
  callResult      \* what that call returned or threw

vars ==
  <<templateCache, kvBound, pc, endpoint, body, units, calls, response,
    invocation, callResult>>

NoBody == [t |-> "none"]
NoResponse == [status |-> 0]
NoConfig == [t |-> "none"]
\* The entry of a callback that has not returned: a pending promise, whose
\* success, messageId, error and recipient all read as undefined.
NoOutcome ==
  [success |-> FALSE, messageId |-> Undefined, error |-> Undefined,
   recipient |-> ToStringValue(Undefined), pending |-> TRUE]
NoCalls == [loadTemplate |-> 0, kvGet |-> 0, sendMail |-> 0, connect |-> 0, send |-> 0]
EmptyCache == [k \in {} |-> <<>>]
NoInvocation ==
  [op |-> "none", pc |-> "idle", args |-> <<>>, kvGets |-> 0, kv |-> "none"]
NoResult == [t |-> "pending"]

\* --------------------------------------------------------- request inputs

RecipientPool ==
  { [to_email |-> Str(EmailJohn), to_name |-> Str(NameJohn)],
    [to_email |-> Str(EmailJane), to_name |-> Str(NameJane)],
    [to_email |-> Str(EmailInvalid), to_name |-> Str(NameJane)] }

RecipientLists == UNION {[1..n -> RecipientPool] : n \in 0..MaxRecipients}

GroupBodies ==
  { [data |-> [from_name |-> f, group_name |-> Str(GroupName), rating |-> r,
               message |-> Str(MessageText), note |-> n, recipients |-> rs],
     timestamp |-> Str(Timestamp), event |-> Str(EventName)] :
    f \in {Str(NameJane), Undefined},
    r \in {Num(8), Num(11), Str(InvalidRating)},
    n \in {Undefined, Str(NoteText)},
    rs \in RecipientLists }

\* A template_data object: its entries in insertion order.
Rec(entries) == [t |-> "record", entries |-> entries]

TemplateDatas ==
  { Rec(<< [key |-> KeyGroupName, value |-> Str(GroupName)],
           [key |-> KeyToName, value |-> Str(NameJohn)],
           [key |-> KeyFromName, value |-> Str(NameJane)],
           [key |-> KeyRating, value |-> Str(<<"8">>)],
           [key |-> KeyMessage, value |-> Str(MessageText)] >>),
    Rec(<< [key |-> KeyGroupName, value |-> Str(GroupName)] >>),
    Rec(<< [key |-> <<"(">>, value |-> Str(GroupName)] >>),
    Undefined }

MailSendBodies ==
  { [to |-> t, subject |-> sj, template_name |-> tn, template_data |-> td] :
    t \in {Str(EmailJohn), Str(EmailInvalid)},
    sj \in {Str(SubjectText), Str(<<>>)},
    tn \in {Str(TemplateGroup), Str(TemplateInvalid), Undefined},
    td \in TemplateDatas }

MailValidateBodies ==
  { [template_name |-> tn, template_data |-> td] :
    tn \in {Str(TemplateGroup), Str(TemplateInvalid), Undefined},
    td \in TemplateDatas }

\* ------------------------------------------- GroupAnnouncement.handle parts

\* Variant of TemplateData: every mail carries the first recipient's name.
TemplateDataFirstName(data, recipient) ==
  << [key |-> KeyGroupName, value |-> data.group_name],
     [key |-> KeyToName, value |-> data.recipients[1].to_name],
     [key |-> KeyFromName, value |-> data.from_name],
     [key |-> KeyRating, value |-> Str(NumberToString(data.rating.n))],
     [key |-> KeyMessage, value |-> data.message],
     [key |-> KeyNote, value |-> data.note] >>

\* The templateData object of one recipient, in the order of its keys.
TemplateData(data, recipient) ==
  << [key |-> KeyGroupName, value |-> data.group_name],
     [key |-> KeyToName, value |-> recipient.to_name],
     [key |-> KeyFromName, value |-> data.from_name],
     [key |-> KeyRating, value |-> Str(NumberToString(data.rating.n))],
     [key |-> KeyMessage, value |-> data.message],
     [key |-> KeyNote, value |-> data.note] >>

\* The argument of mailService.sendMail for one recipient.
GroupMailConfig(data, recipient, html) ==
  [from |-> FromAddress, to |-> recipient.to_email.s,
   subject |-> SubjectPrefix \o data.group_name.s, html |-> html]

\* The object the recipient's callback returns after sendMail resolved.
Outcome(result, recipient) ==
  [success |-> result.success, messageId |-> result.messageId,
   error |-> result.error, recipient |-> recipient.to_email.s, pending |-> FALSE]

\* A unit is the callback of one recipient: pc is where it stands, awaited
\* the value of the call it is suspended on once that call has returned (the
\* template text of loadTemplate at "loaded", the html of processTemplate at
\* "processed"), config the argument of its sendMail, transport what connect
\* or send told it, outcome what it returned. order is a history field, the rank of the unit among the
\* units of its dispatch by the time their callbacks returned (0 until
\* then).
\*
\* The unit of a recipient whose loadTemplate found the template cached and
\* returned it: processTemplate awaits that return.
UnitLoaded(template) ==
  [pc |-> "loaded", awaited |-> Str(template), config |-> NoConfig,
   transport |-> "none", outcome |-> NoOutcome, order |-> 0]

\* The unit of a recipient whose loadTemplate missed the cache and awaits
\* readTemplateFile.
UnitReading ==
  [pc |-> "reading", awaited |-> Undefined, config |-> NoConfig,
   transport |-> "none", outcome |-> NoOutcome, order |-> 0]

\* Variant of StartedUnits: the callbacks run one after the other, only the
\* first recipient's has started when the handler suspends.
StartedUnitsOneByOne(data, cache) ==
  [i \in 1..Len(data.recipients) |->
     IF i > 1
     THEN [pc |-> "waiting", awaited |-> Undefined, config |-> NoConfig,
           transport |-> "none", outcome |-> NoOutcome, order |-> 0]
     ELSE IF FileGroupHtml \in DOMAIN cache
          THEN UnitLoaded(cache[FileGroupHtml])
          ELSE UnitReading]

\* data.recipients.map(async (recipient) => ...): every recipient's callback
\* is called in turn and runs up to its first suspension, before the handler
\* awaits anything: with the template cached loadTemplate has returned the
\* text and processTemplate awaits that return, without it loadTemplate
\* awaits readTemplateFile.
StartedUnits(data, cache) ==
  [i \in 1..Len(data.recipients) |->
     IF FileGroupHtml \in DOMAIN cache
     THEN UnitLoaded(cache[FileGroupHtml])
     ELSE UnitReading]

\* The number of units whose callback has returned.
SettledBefore(us) == Cardinality({j \in 1..Len(us) : us[j].pc = "settled"})

\* Variant of SettleUnit: a failed outcome is shared by every unit that has not
\* returned yet (one recipient's failure ends the others).
SettleUnitAbortsOthers(us, i, outcome) ==
  [j \in 1..Len(us) |->
     IF j = i \/ (~outcome.success /\ us[j].pc # "settled")
     THEN [pc |-> "settled", awaited |-> Undefined, config |-> NoConfig,
           transport |-> us[j].transport,
           outcome |-> [outcome EXCEPT !.recipient = us[j].outcome.recipient],
           order |-> SettledBefore(us) + 1]
     ELSE us[j]]

\* Variant of SettleUnit: a unit whose delivery failed is dropped without its
\* callback ever returning.
SettleUnitHangsOnFailure(us, i, outcome) ==
  [us EXCEPT ![i] = [pc |-> IF outcome.success THEN "settled" ELSE "cancelled",
                     awaited |-> Undefined, config |-> NoConfig,
                     transport |-> us[i].transport, outcome |-> outcome,
                     order |-> SettledBefore(us) + 1]]

\* Variant of SettleUnit: a send the transport rejected is tried again, the
\* unit going back to connect.
SettleUnitRetriesFailedSend(us, i, outcome) ==
  IF ~outcome.success /\ us[i].transport = "send_error"
  THEN [us EXCEPT ![i].pc = "connecting"]
  ELSE [us EXCEPT ![i] = [pc |-> "settled", awaited |-> Undefined,
                          config |-> NoConfig,
                          transport |-> us[i].transport, outcome |-> outcome,
                          order |-> SettledBefore(us) + 1]]

\* The callback of recipient i returns outcome: its promise is fulfilled with
\* it and its locals are gone. No other unit is touched.
SettleUnit(us, i, outcome) ==
  [us EXCEPT ![i] = [pc |-> "settled", awaited |-> Undefined,
                     config |-> NoConfig,
                     transport |-> us[i].transport, outcome |-> outcome,
                     order |-> SettledBefore(us) + 1]]

\* Variant of AllSettled: the first callback to return resolves the wait.
AnySettled(us) == Len(us) = 0 \/ \E i \in 1..Len(us) : us[i].pc = "settled"

\* Promise.all(emailPromises) has resolved: every callback has returned.
AllSettled(us) == \A i \in 1..Len(us) : us[i].pc = "settled"

Succeeded(r) == r.success
Failed(r) == ~r.success
HasMessageId(r) == Truthy(r.messageId)

\* results.filter(r => r.success), results.filter(r => !r.success)
SuccessfulSends(results) == SelectSeq(results, Succeeded)
FailedSends(results) == SelectSeq(results, Failed)

\* successfulSends.map(r => r.messageId).filter(Boolean)
MessageIds(successfulSends) ==
  LET kept == SelectSeq(successfulSends, HasMessageId)
  IN [i \in 1..Len(kept) |-> kept[i].messageId.s]

\* `${r.recipient}: ${r.error}`
ErrorLine(r) == r.recipient \o <<":", " ">> \o ToStringValue(r.error)

\* Variant of ErrorLines: every error carries the first failed recipient.
ErrorLinesFirstRecipient(failedSends) ==
  [i \in 1..Len(failedSends) |->
     ErrorLine([failedSends[i] EXCEPT !.recipient = failedSends[1].recipient])]

\* failedSends.map(r => `${r.recipient}: ${r.error}`)
ErrorLines(failedSends) == [i \in 1..Len(failedSends) |-> ErrorLine(failedSends[i])]

\* Variant of SuccessFlag: success as soon as one mail went out.
SuccessFlagAnySent(results) == Len(SuccessfulSends(results)) > 0

\* success: failedSends.length === 0
SuccessFlag(results) == Len(FailedSends(results)) = 0

\* The response object built from the settled results.
GroupAnnouncementResponse(results) ==
  [success |-> Bool(SuccessFlag(results)),
   sent_count |-> Num(Len(SuccessfulSends(results))),
   failed_count |-> Num(Len(FailedSends(results))),
   message_ids |-> Arr(MessageIds(SuccessfulSends(results))),
   errors |-> Arr(ErrorLines(FailedSends(results)))]

\* Variant of StatusCode: any failure is reported as a full failure.
StatusCodeNoPartial(successfulSends, failedSends) ==
  IF Len(failedSends) = 0 THEN 200 ELSE 500

\* Variant of StatusCode: the two tests in the other order.
StatusCodeSentFirst(successfulSends, failedSends) ==
  IF Len(successfulSends) = 0 THEN 500
  ELSE IF Len(failedSends) = 0 THEN 200 ELSE 207

\* failedSends.length === 0 ? 200 : successfulSends.length === 0 ? 500 : 207
StatusCode(successfulSends, failedSends) ==
  IF Len(failedSends) = 0 THEN 200
  ELSE IF Len(successfulSends) = 0 THEN 500 ELSE 207

\* The response of the handler's outer catch.
GroupAnnouncementCatch(message) ==
  [status |-> 500,
   body |-> Json([success |-> Bool(FALSE), sent_count |-> Num(0),
                  failed_count |-> Num(0), errors |-> Arr(<<message>>)])]

\* Variant of Results: one outcome per distinct recipient address.
ResultsUniqueRecipients(us) ==
  LET first == {i \in 1..Len(us) :
                  \A j \in 1..(i - 1) : us[j].outcome.recipient # us[i].outcome.recipient}
      Nth[k \in 1..Cardinality(first)] ==
        CHOOSE i \in first : Cardinality({j \in first : j < i}) = k - 1
  IN [k \in 1..Cardinality(first) |-> us[Nth[k]].outcome]

\* Variant of Results: the outcomes in the order in which the callbacks
\* returned.
ResultsInSettleOrder(us) ==
  [k \in 1..Len(us) |-> us[CHOOSE i \in 1..Len(us) : us[i].order = k].outcome]

\* The results array of the awaited Promise.all: the outcome of every callback
\* at the position of its recipient.
Results(us) == [i \in 1..Len(us) |-> us[i].outcome]

\* -------------------------------------- MailSend / MailValidate.handle parts

\* validateTemplateData once loadTemplate has settled with loaded (a text, or
\* t = "throw"): what loadTemplate or process throws is reported as invalid,
\* and the processed text is dropped.
ValidateTemplateData(loaded, data) ==
  IF loaded.t = "throw"
  THEN [valid |-> FALSE, error |-> Str(loaded.message)]
  ELSE IF ProcessThrows(data)
  THEN [valid |-> FALSE, error |-> Str(InvalidRegularExpression)]
  ELSE [valid |-> TRUE, error |-> Undefined]

\* loadTemplate's outcome given readTemplateFile's: the text, or the error it
\* rethrows as `Failed to load template ${templateName}: ${error}`.
LoadTemplateResult(templateName, read) ==
  IF read.t = "throw"
  THEN [t |-> "throw",
        message |-> FailedToLoadPrefix \o templateName \o <<":", " ">> \o read.message]
  ELSE read

\* The argument of mailService.sendMail in MailSend.handle.
SendMailConfig(b, html) ==
  [from |-> FromAddress, to |-> b.to.s, subject |-> b.subject.s, html |-> html]

\* The response of MailSend.handle for a settled sendMail result.
MailSendResponse(result) ==
  [status |-> IF result.success THEN 200 ELSE 500,
   body |-> Json([success |-> Bool(result.success), message_id |-> result.messageId,
                  error |-> result.error])]

\* The response of MailSend.handle's catch.
MailSendCatch(message) ==
  [status |-> 500, body |-> Json([success |-> Bool(FALSE), error |-> Str(message)])]

\* The response of MailValidate.handle's catch.
MailValidateCatch(message) ==
  [status |-> 400, body |-> Json([valid |-> Bool(FALSE), error |-> Str(message)])]

\* The early return of both handlers for a name that is not available.
InvalidTemplateNameResponse(flag) ==
  [status |-> 400,
   body |-> Json([k \in {flag, "error"} |->
                    IF k = flag THEN Bool(FALSE) ELSE Str(InvalidTemplateNameError)])]

\* validateTemplateData of MailSend.handle resolved to valid: true, so that
\* the handler goes on to processTemplate and sendMail.
MailSendValidated(b, loaded) ==
  ValidateTemplateData(loaded, b.template_data.entries).valid

\* MailSend.handle from the settled validation on: an invalid validation is
\* answered 400; otherwise processTemplate reads the template (cached by the
\* validation's load) and sendMail is entered. Gives <<units, response>>.
MailSendAfterValidation(b, loaded) ==
  LET validation == ValidateTemplateData(loaded, b.template_data.entries)
      html == Process(loaded.s, b.template_data.entries)
      config == SendMailConfig(b, html)
  IN IF ~validation.valid
     THEN << <<>>,
             [status |-> 400,
              body |-> Json([success |-> Bool(FALSE),
                             error |-> Str(ValidationFailedPrefix \o validation.error.s)])] >>
     ELSE IF MailConfigValid(config)
     THEN << <<[pc |-> "connecting", awaited |-> Undefined, config |-> config,
                transport |-> "none", outcome |-> NoOutcome, order |-> 0]>>,
             NoResponse >>
     ELSE << <<>>, MailSendResponse(SendFailure(ZodErrorMessage)) >>

\* ------------------------------------------------------------------ actions

Init ==
  /\ templateCache = EmptyCache
  /\ kvBound \in BOOLEAN
  /\ pc = "idle"
  /\ endpoint = "none"
  /\ body = NoBody
  /\ units = <<>>
  /\ calls = NoCalls
  /\ response = NoResponse
  /\ invocation = NoInvocation
  /\ callResult = NoResult

\* POST /mail/group-announcement, up to the await of Promise.all: the body is
\* parsed; a ZodError goes to the outer catch; otherwise recipients.map starts
\* every recipient's callback, each of which runs up to its first suspension:
\* processTemplate awaits the cached text loadTemplate returned, or
\* loadTemplate awaits readTemplateFile.
GroupAnnouncementHandle(b) ==
  /\ pc = "idle"
  /\ endpoint' = "group"
  /\ body' = b
  /\ IF ~GroupAnnouncementSchemaValid(b)
     THEN /\ response' = GroupAnnouncementCatch(ZodErrorMessage)
          /\ pc' = "done"
          /\ units' = <<>>
          /\ calls' = NoCalls
     ELSE LET rs == b.data.recipients
              hit == FileGroupHtml \in DOMAIN templateCache
          IN /\ units' = StartedUnits(b.data, templateCache)
             /\ calls' = [loadTemplate |-> Len(rs),
                          kvGet |-> IF hit \/ ~kvBound THEN 0 ELSE Len(rs),
                          sendMail |-> 0,
                          connect |-> 0,
                          send |-> 0]
             /\ response' = NoResponse
             /\ pc' = "awaiting"
  /\ UNCHANGED <<templateCache, kvBound, invocation, callResult>>

\* readTemplateFile of recipient i settles and its loadTemplate resumes: the
\* text is cached and returned to processTemplate, which awaits it (the unit
\* is where a unit that found the template cached starts). A lookup
\* that throws is rethrown by loadTemplate and caught by the callback, which
\* returns the failure.
UnitReadTemplateFile(i, kvResult) ==
  /\ pc = "awaiting" /\ endpoint = "group"
  /\ i \in 1..Len(units)
  /\ units[i].pc = "reading"
  /\ kvResult \in KvGetResults(kvBound, FileGroupHtml)
  /\ LET read == ReadTemplateFile(FileGroupHtml, kvResult)
         recipient == body.data.recipients[i]
     IN IF read.t = "throw"
        THEN /\ units' = SettleUnit(units, i,
                  [success |-> FALSE, messageId |-> Undefined,
                   error |-> Str(FailedToLoadPrefix \o TemplateGroup \o <<":", " ">>
                                 \o read.message),
                   recipient |-> recipient.to_email.s, pending |-> FALSE])
             /\ UNCHANGED templateCache
        ELSE /\ templateCache' = CacheSet(templateCache, FileGroupHtml, read.s)
             /\ units' = [units EXCEPT ![i].pc = "loaded",
                                       ![i].awaited = Str(read.s)]
  /\ UNCHANGED <<kvBound, invocation, callResult, pc, endpoint, body, calls, response>>

\* processTemplate of recipient i resumes with the text its loadTemplate
\* returned: the template is processed with the recipient's data and the html
\* is returned to the callback, which awaits it.
UnitProcessTemplate(i) ==
  /\ pc = "awaiting" /\ endpoint = "group"
  /\ i \in 1..Len(units)
  /\ units[i].pc = "loaded"
  /\ units' = [units EXCEPT
                 ![i].pc = "processed",
                 ![i].awaited = Str(Process(units[i].awaited.s,
                                            TemplateData(body.data, body.data.recipients[i])))]
  /\ UNCHANGED <<templateCache, kvBound, invocation, callResult, pc, endpoint, body, calls, response>>

\* The callback of recipient i resumes with the html of processTemplate and
\* calls sendMail, which validates the config and, when it is valid, calls
\* WorkerMailer.connect and awaits it; for an invalid config sendMail resolves
\* to the failure and the callback returns it.
UnitSendMail(i) ==
  /\ pc = "awaiting" /\ endpoint = "group"
  /\ i \in 1..Len(units)
  /\ units[i].pc = "processed"
  /\ LET recipient == body.data.recipients[i]
         config == GroupMailConfig(body.data, recipient, units[i].awaited.s)
     IN IF MailConfigValid(config)
        THEN /\ units' = [units EXCEPT ![i].pc = "connecting",
                                       ![i].awaited = Undefined,
                                       ![i].config = config]
             /\ calls' = [calls EXCEPT !.sendMail = @ + 1, !.connect = @ + 1]
        ELSE /\ units' = SettleUnit(units, i,
                            Outcome(SendFailure(ZodErrorMessage), recipient))
             /\ calls' = [calls EXCEPT !.sendMail = @ + 1]
  /\ UNCHANGED <<templateCache, kvBound, invocation, callResult, pc, endpoint, body, response>>

\* WorkerMailer.connect of recipient i resolves (mailer.send is called) or
\* rejects (sendMail resolves to a failure, the callback returns it).
UnitConnect(i, ok) ==
  /\ pc = "awaiting" /\ endpoint = "group"
  /\ i \in 1..Len(units)
  /\ units[i].pc = "connecting"
  /\ IF ok
     THEN /\ units' = [units EXCEPT ![i].pc = "sending"]
          /\ calls' = [calls EXCEPT !.send = @ + 1]
     ELSE /\ units' = SettleUnit([units EXCEPT ![i].transport = "connect_error"], i,
               Outcome(SendFailure(ConnectError), body.data.recipients[i]))
          /\ UNCHANGED calls
  /\ UNCHANGED <<templateCache, kvBound, invocation, callResult, pc, endpoint, body, response>>

\* mailer.send of recipient i resolves (a message id is generated) or rejects.
UnitSend(i, ok, now, rand) ==
  /\ pc = "awaiting" /\ endpoint = "group"
  /\ i \in 1..Len(units)
  /\ units[i].pc = "sending"
  /\ units' = SettleUnit(
       [units EXCEPT ![i].transport = IF ok THEN "delivered" ELSE "send_error"], i,
       Outcome(IF ok THEN SendSuccess(MessageId(now, rand)) ELSE SendFailure(SendError),
               body.data.recipients[i]))
  /\ UNCHANGED <<templateCache, kvBound, invocation, callResult, pc, endpoint, body, calls, response>>

\* Promise.all has resolved: the statistics are computed and the response is
\* returned.
GroupAnnouncementRespond ==
  /\ pc = "awaiting" /\ endpoint = "group"
  /\ AllSettled(units)
  /\ LET results == Results(units)
     IN response' = [status |-> StatusCode(SuccessfulSends(results), FailedSends(results)),
                     body |-> Json(GroupAnnouncementResponse(results))]
  /\ pc' = "done"
  /\ UNCHANGED <<templateCache, kvBound, invocation, callResult, endpoint, body, units, calls>>

\* POST /mail/send up to its first suspension: the body is parsed (a ZodError
\* goes to the catch), the template name is checked, validateTemplateData
\* calls loadTemplate, which returns the cached text or awaits readTemplateFile.
MailSendHandle(b) ==
  /\ pc = "idle"
  /\ endpoint' = "send"
  /\ body' = b
  /\ IF ~MailSendRequestValid(b)
     THEN /\ response' = MailSendCatch(ZodErrorMessage)
          /\ units' = <<>>
          /\ calls' = NoCalls
     ELSE IF ~IsAvailableTemplate(b.template_name.s)
     THEN /\ response' = InvalidTemplateNameResponse("success")
          /\ units' = <<>>
          /\ calls' = NoCalls
     ELSE LET file == TemplateFile(b.template_name.s)
              hit == file \in DOMAIN templateCache
              after == MailSendAfterValidation(b, Str(templateCache[file]))
          IN IF hit
             THEN /\ units' = after[1]
                  /\ response' = after[2]
                  /\ calls' = IF MailSendValidated(b, Str(templateCache[file]))
                              THEN [NoCalls EXCEPT !.loadTemplate = 2,
                                      !.sendMail = 1, !.connect = Len(after[1])]
                              ELSE [NoCalls EXCEPT !.loadTemplate = 1]
             ELSE /\ units' = <<UnitReading>>
                  /\ response' = NoResponse
                  /\ calls' = [NoCalls EXCEPT !.loadTemplate = 1,
                                 !.kvGet = IF kvBound THEN 1 ELSE 0]
  /\ pc' = IF response' = NoResponse THEN "awaiting" ELSE "done"
  /\ UNCHANGED <<templateCache, kvBound, invocation, callResult>>

\* readTemplateFile resolves or rejects inside the validation's loadTemplate.
MailSendReadTemplateFile(kvResult) ==
  /\ pc = "awaiting" /\ endpoint = "send"
  /\ Len(units) = 1 /\ units[1].pc = "reading"
  /\ LET name == body.template_name.s
         file == TemplateFile(name)
         loaded == LoadTemplateResult(name, ReadTemplateFile(file, kvResult))
         after == MailSendAfterValidation(body, loaded)
     IN /\ kvResult \in KvGetResults(kvBound, file)
        /\ templateCache' = IF loaded.t = "throw" THEN templateCache
                            ELSE CacheSet(templateCache, file, loaded.s)
        /\ units' = after[1]
        /\ response' = after[2]
        /\ calls' = IF ~MailSendValidated(body, loaded) THEN calls
                    ELSE [calls EXCEPT !.loadTemplate = @ + 1, !.sendMail = @ + 1,
                                       !.connect = @ + Len(after[1])]
  /\ pc' = IF response' = NoResponse THEN "awaiting" ELSE "done"
  /\ UNCHANGED <<kvBound, invocation, callResult, endpoint, body>>

\* WorkerMailer.connect resolves (mailer.send is called) or rejects.
MailSendConnect(ok) ==
  /\ pc = "awaiting" /\ endpoint = "send"
  /\ Len(units) = 1 /\ units[1].pc = "connecting"
  /\ IF ok
     THEN /\ units' = [units EXCEPT ![1].pc = "sending"]
          /\ calls' = [calls EXCEPT !.send = @ + 1]
          /\ UNCHANGED <<pc, response>>
     ELSE /\ response' = MailSendResponse(SendFailure(ConnectError))
          /\ pc' = "done"
          /\ UNCHANGED <<units, calls>>
  /\ UNCHANGED <<templateCache, kvBound, invocation, callResult, endpoint, body>>

\* mailer.send resolves (a message id is generated) or rejects; the handler
\* returns the result.
MailSendSend(ok, now, rand) ==
  /\ pc = "awaiting" /\ endpoint = "send"
  /\ Len(units) = 1 /\ units[1].pc = "sending"
  /\ response' = MailSendResponse(IF ok THEN SendSuccess(MessageId(now, rand))
                                        ELSE SendFailure(SendError))
  /\ pc' = "done"
  /\ UNCHANGED <<templateCache, kvBound, invocation, callResult, endpoint, body, units, calls>>

\* POST /mail/validate up to its first suspension.
MailValidateHandle(b) ==
  /\ pc = "idle"
  /\ endpoint' = "validate"
  /\ body' = b
  /\ IF ~MailValidateRequestValid(b)
     THEN /\ response' = MailValidateCatch(ZodErrorMessage)
          /\ units' = <<>>
          /\ calls' = NoCalls
     ELSE IF ~IsAvailableTemplate(b.template_name.s)
     THEN /\ response' = InvalidTemplateNameResponse("valid")
          /\ units' = <<>>
          /\ calls' = NoCalls
     ELSE LET file == TemplateFile(b.template_name.s)
              hit == file \in DOMAIN templateCache
              validation == ValidateTemplateData(Str(templateCache[file]),
                                                b.template_data.entries)
          IN IF hit
             THEN /\ response' = [status |-> 200,
                                  body |-> Json([valid |-> Bool(validation.valid),
                                                 error |-> validation.error])]
                  /\ units' = <<>>
                  /\ calls' = [NoCalls EXCEPT !.loadTemplate = 1]
             ELSE /\ units' = <<UnitReading>>
                  /\ response' = NoResponse
                  /\ calls' = [NoCalls EXCEPT !.loadTemplate = 1,
                                 !.kvGet = IF kvBound THEN 1 ELSE 0]
  /\ pc' = IF response' = NoResponse THEN "awaiting" ELSE "done"
  /\ UNCHANGED <<templateCache, kvBound, invocation, callResult>>

\* readTemplateFile resolves or rejects inside validateTemplateData.
MailValidateReadTemplateFile(kvResult) ==
  /\ pc = "awaiting" /\ endpoint = "validate"
  /\ Len(units) = 1 /\ units[1].pc = "reading"
  /\ LET name == body.template_name.s
         file == TemplateFile(name)
         loaded == LoadTemplateResult(name, ReadTemplateFile(file, kvResult))
         validation == ValidateTemplateData(loaded, body.template_data.entries)
     IN /\ kvResult \in KvGetResults(kvBound, file)
        /\ templateCache' = IF loaded.t = "throw" THEN templateCache
                            ELSE CacheSet(templateCache, file, loaded.s)
        /\ response' = [status |-> 200,
                        body |-> Json([valid |-> Bool(validation.valid),
                                       error |-> validation.error])]
  /\ units' = <<>>
  /\ pc' = "done"
  /\ UNCHANGED <<kvBound, invocation, callResult, endpoint, body, calls>>

\* The request is over; the worker is ready for the next one. Only the
\* template cache outlives a request.
NextRequest ==
  /\ pc = "done"
  /\ pc' = "idle"
  /\ endpoint' = "none"
  /\ body' = NoBody
  /\ units' = <<>>
  /\ calls' = NoCalls
  /\ response' = NoResponse
  /\ UNCHANGED <<templateCache, kvBound, invocation, callResult>>

Next ==
  \/ \E b \in GroupBodies : GroupAnnouncementHandle(b)
  \/ \E i \in 1..MaxRecipients, r \in KvGetResults(kvBound, FileGroupHtml) :
       UnitReadTemplateFile(i, r)
  \/ \E i \in 1..MaxRecipients : UnitProcessTemplate(i)
  \/ \E i \in 1..MaxRecipients : UnitSendMail(i)
  \/ \E i \in 1..MaxRecipients, ok \in BOOLEAN : UnitConnect(i, ok)
  \/ \E i \in 1..MaxRecipients, ok \in BOOLEAN, now \in Times, rand \in RandomSuffixes :
       UnitSend(i, ok, now, rand)
  \/ GroupAnnouncementRespond
  \/ \E b \in MailSendBodies : MailSendHandle(b)
  \/ \E r \in KvGetResults(kvBound, FileGroupHtml) : MailSendReadTemplateFile(r)
  \/ \E ok \in BOOLEAN : MailSendConnect(ok)
  \/ \E ok \in BOOLEAN, now \in Times, rand \in RandomSuffixes : MailSendSend(ok, now, rand)
  \/ \E b \in MailValidateBodies : MailValidateHandle(b)
  \/ \E r \in KvGetResults(kvBound, FileGroupHtml) : MailValidateReadTemplateFile(r)
  \/ NextRequest

Spec == Init /\ [][Next]_vars

\* A step of recipient i's unit in sendMail: connect or send settles.
UnitTransportStep(i) ==
  \/ \E ok \in BOOLEAN : UnitConnect(i, ok)
  \/ \E ok \in BOOLEAN, now \in Times, rand \in RandomSuffixes : UnitSend(i, ok, now, rand)

\* The worker when whatever a recipient's unit awaits settles in the end, and
\* the handler is resumed once Promise.all has resolved. A unit that awaits
\* the template lookup, the return of loadTemplate or the return of
\* processTemplate can take the one step that resumes it and nothing else
\* changes it, so weak fairness of that step is the recurrence of "the unit
\* is not suspended there"; connect, send and the resumption of the handler
\* are weakly fair steps.
FairSpec ==
  /\ Spec
  /\ \A i \in 1..MaxRecipients :
       /\ \A stage \in {"reading", "loaded", "processed"} :
            []<>(~(/\ endpoint = "group" /\ pc = "awaiting"
                   /\ i \in 1..Len(units)
                   /\ units[i].pc = stage))
       /\ WF_vars(UnitTransportStep(i))
  /\ WF_vars(GroupAnnouncementRespond)

\* ------------------------------------------- direct calls of the services
\*
\* TemplateProcessor.process, the static methods of TemplateService and
\* MailService.sendMail called by a caller other than the three handlers (the
\* integration tests call them this way), one call after the other. The
\* template cache is the one the handlers use.

\* Entries of a data object a direct call is made with: at most this many.
MaxEntries == 2

\* Templates of the direct calls of process: one block with a fixed body
RenderBlock ==
  <<"p", "{", "{", "#", "a", "}", "}", "x", "{", "{", "/", "a", "}", "}", "q">>

\* a variable and a block that holds its own variable
RenderHello ==
  <<"H", "i", " ", "{", "{", "a", "}", "}", "!", " ", "{", "{", "#", "b",
    "}", "}", "N", ":", " ", "{", "{", "b", "}", "}", "{", "{", "/", "b",
    "}", "}">>

\* one variable at two places
RenderTwice ==
  <<"{", "{", "a", "}", "}", "-", "{", "{", "a", "}", "}">>

\* a block nested in a block of another name
RenderNested ==
  <<"{", "{", "#", "a", "}", "}", "1", "{", "{", "#", "b", "}", "}", "2",
    "{", "{", "/", "b", "}", "}", "3", "{", "{", "/", "a", "}", "}", "4">>

\* two blocks of different names in sequence
RenderSequential ==
  <<"{", "{", "#", "a", "}", "}", "1", "{", "{", "/", "a", "}", "}", " ",
    "{", "{", "#", "b", "}", "}", "2", "{", "{", "/", "b", "}", "}", " ", "3">>

\* a block and a variable whose names no data object of the model has
RenderMissing ==
  <<"H", "i", " ", "{", "{", "#", "c", "}", "}", "n", "o", "{", "{", "/",
    "c", "}", "}", " ", "{", "{", "d", "}", "}">>

\* a text without markers
RenderPlain ==
  <<"n", "o", " ", "m", "a", "r", "k", "e", "r", "s">>

\* "{{#a}}{{a}}{{b}}{{/a}}|{{a}}{{b}}", the same markers inside a block and
\* outside any block
RenderInside ==
  <<"{", "{", "#", "a", "}", "}", "{", "{", "a", "}", "}", "{", "{", "b",
    "}", "}", "{", "{", "/", "a", "}", "}", "|", "{", "{", "a", "}", "}",
    "{", "{", "b", "}", "}">>

RenderTemplates ==
  {RenderBlock, RenderHello, RenderTwice, RenderNested, RenderSequential,
   RenderMissing, RenderPlain, RenderInside, <<>>}

RenderKeys == {<<"a">>, <<"b">>}

\* Scalar values of a data object, and undefined for a key set to undefined.
RenderValues ==
  {Str(<<>>), Str(<<"x">>), Num(0), Num(7), Bool(FALSE), Bool(TRUE), Undefined}

\* Entries of a data object: a key of the templates with any of the values,
\* or a key that holds a character of the regular-expression syntax.
RenderEntries ==
  [key : RenderKeys, value : RenderValues]
    \cup {[key |-> <<"(">>, value |-> Str(<<"x">>)]}

\* Data objects of at most MaxEntries entries: the keys of an object differ.
RenderDatas ==
  UNION { { e \in [1..n -> RenderEntries] :
              \A i, j \in 1..n : e[i].key = e[j].key => i = j } :
          n \in 0..MaxEntries }

\* Data objects of the direct calls of TemplateService.
ServiceDatas == {<<>>} \cup {td.entries : td \in TemplateDatas \ {Undefined}}

\* Names the direct calls of TemplateService are made with.
ServiceNames == {TemplateGroup, TemplateInvalid, NameToString, NameConstructor, NameProto}

\* Arguments of the direct calls of sendMail.
MailConfigs ==
  { [from |-> f, to |-> t, subject |-> SubjectText, html |-> MessageText] :
    f \in {FromAddress, EmailInvalid}, t \in {EmailJohn, EmailInvalid} }

\* What a call gave its caller: the value it returned (or its promise was
\* fulfilled with), or the message of the error it threw (or rejected with).
Returned(value) == [t |-> "returned", value |-> value]
Threw(message) == [t |-> "threw", message |-> message]

\* A value or a throw of the model ([t |-> "throw", message]) as a call result.
ResultOf(v) == IF v.t = "throw" THEN Threw(v.message) ELSE Returned(v)

\* What loadTemplate, processTemplate or validateTemplateData gives once its
\* loadTemplate has settled with loaded.
ServiceResult(op, loaded, data) ==
  CASE op = "loadTemplate" -> ResultOf(loaded)
    [] op = "processTemplate" ->
         IF loaded.t = "throw" THEN ResultOf(loaded)
         ELSE ResultOf(ProcessResult(loaded.s, data))
    [] OTHER -> Returned(ValidateTemplateData(loaded, data))

\* TemplateProcessor.process(template, data)
CallProcess(template, data) ==
  /\ invocation.pc = "idle"
  /\ invocation' = [NoInvocation EXCEPT !.op = "process", !.pc = "done",
                                         !.args = <<template, data>>]
  /\ callResult' = ResultOf(ProcessResult(template, data))
  /\ UNCHANGED <<templateCache, kvBound, pc, endpoint, body, units, calls, response>>

\* loadTemplate, processTemplate or validateTemplateData up to the first
\* suspension of its loadTemplate: a cache hit returns the cached text and the
\* call runs to its end; a miss awaits readTemplateFile.
EnterTemplateService(op, name, data) ==
  /\ invocation.pc = "idle"
  /\ LET file == TemplateFile(name)
         hit == file \in DOMAIN templateCache
     IN IF hit
        THEN /\ invocation' = [NoInvocation EXCEPT !.op = op, !.pc = "done",
                                                    !.args = <<name, data>>]
             /\ callResult' = ServiceResult(op, Str(templateCache[file]), data)
        ELSE /\ invocation' = [NoInvocation EXCEPT !.op = op, !.pc = "reading",
                                  !.args = <<name, data>>,
                                  !.kvGets = IF kvBound THEN 1 ELSE 0]
             /\ callResult' = NoResult
  /\ UNCHANGED <<templateCache, kvBound, pc, endpoint, body, units, calls, response>>

\* TemplateService.loadTemplate(name, env)
CallLoadTemplate(name) == EnterTemplateService("loadTemplate", name, <<>>)

\* TemplateService.processTemplate(name, data, env)
CallProcessTemplate(name, data) == EnterTemplateService("processTemplate", name, data)

\* TemplateService.validateTemplateData(name, data, env)
CallValidateTemplateData(name, data) ==
  EnterTemplateService("validateTemplateData", name, data)

\* readTemplateFile settles inside the call's loadTemplate: the text is
\* cached and the call runs to its end, or the error is rethrown.
CallReadTemplateFile(kvResult) ==
  /\ invocation.pc = "reading"
  /\ LET name == invocation.args[1]
         file == TemplateFile(name)
         loaded == LoadTemplateResult(name, ReadTemplateFile(file, kvResult))
     IN /\ kvResult \in KvGetResults(kvBound, file)
        /\ templateCache' = IF loaded.t = "throw" THEN templateCache
                            ELSE CacheSet(templateCache, file, loaded.s)
        /\ callResult' = ServiceResult(invocation.op, loaded, invocation.args[2])
        /\ invocation' = [invocation EXCEPT !.pc = "done", !.kv = kvResult.t]
  /\ UNCHANGED <<kvBound, pc, endpoint, body, units, calls, response>>

\* TemplateService.clearCache()
CallClearCache ==
  /\ invocation.pc = "idle"
  /\ templateCache' = EmptyCache
  /\ invocation' = [NoInvocation EXCEPT !.op = "clearCache", !.pc = "done"]
  /\ callResult' = Returned(Undefined)
  /\ UNCHANGED <<kvBound, pc, endpoint, body, units, calls, response>>

\* mailService.sendMail(config) up to its first suspension: a config the
\* schema rejects goes to the catch, otherwise WorkerMailer.connect is awaited.
CallSendMail(config) ==
  /\ invocation.pc = "idle"
  /\ IF MailConfigValid(config)
     THEN /\ invocation' = [NoInvocation EXCEPT !.op = "sendMail",
                              !.pc = "connecting", !.args = <<config>>]
          /\ callResult' = NoResult
     ELSE /\ invocation' = [NoInvocation EXCEPT !.op = "sendMail", !.pc = "done",
                              !.args = <<config>>]
          /\ callResult' = Returned(SendFailure(ZodErrorMessage))
  /\ UNCHANGED <<templateCache, kvBound, pc, endpoint, body, units, calls, response>>

\* WorkerMailer.connect resolves (mailer.send is awaited) or rejects (the
\* catch returns the failure).
CallConnect(ok) ==
  /\ invocation.pc = "connecting"
  /\ IF ok
     THEN /\ invocation' = [invocation EXCEPT !.pc = "sending"]
          /\ UNCHANGED callResult
     ELSE /\ invocation' = [invocation EXCEPT !.pc = "done"]
          /\ callResult' = Returned(SendFailure(ConnectError))
  /\ UNCHANGED <<templateCache, kvBound, pc, endpoint, body, units, calls, response>>

\* mailer.send resolves (the message id is generated) or rejects.
CallSend(ok, now, rand) ==
  /\ invocation.pc = "sending"
  /\ invocation' = [invocation EXCEPT !.pc = "done"]
  /\ callResult' = Returned(IF ok THEN SendSuccess(MessageId(now, rand))
                                  ELSE SendFailure(SendError))
  /\ UNCHANGED <<templateCache, kvBound, pc, endpoint, body, units, calls, response>>

\* The caller has its result and is ready for its next call; the template
\* cache stays.
CallDone ==
  /\ invocation.pc = "done"
  /\ invocation' = NoInvocation
  /\ callResult' = NoResult
  /\ UNCHANGED <<templateCache, kvBound, pc, endpoint, body, units, calls, response>>

ServiceNext ==
  \/ \E template \in RenderTemplates, data \in RenderDatas : CallProcess(template, data)
  \/ \E name \in ServiceNames : CallLoadTemplate(name)
  \/ \E name \in ServiceNames, data \in ServiceDatas : CallProcessTemplate(name, data)
  \/ \E name \in ServiceNames, data \in ServiceDatas :
       CallValidateTemplateData(name, data)
  \/ \E r \in KvGetResults(kvBound, FileGroupHtml) : CallReadTemplateFile(r)
  \/ CallClearCache
  \/ \E config \in MailConfigs : CallSendMail(config)
  \/ \E ok \in BOOLEAN : CallConnect(ok)
  \/ \E ok \in BOOLEAN, now \in Times, rand \in RandomSuffixes : CallSend(ok, now, rand)
  \/ CallDone

ServiceSpec == Init /\ [][ServiceNext]_vars

\* ------------------------------------------------------------------ claims

\* A group announcement whose body passed the schema has been answered: the
\* response is the report built from the results.
Aggregated ==
  endpoint = "group" /\ pc = "done" /\ GroupAnnouncementSchemaValid(body)

Recipients == body.data.recipients
UnitsSucceeded == {i \in 1..Len(units) : units[i].outcome.success}
UnitsFailed == {i \in 1..Len(units) : ~units[i].outcome.success}

\* What the transport told the unit, as the error text sendMail reports.
TransportError(unit) ==
  IF unit.transport = "connect_error" THEN ConnectError ELSE SendError

\* C1: the report's success flag is true exactly when every recipient's Send
\* Outcome succeeded.
C1_SuccessIffAllSucceeded ==
  Aggregated =>
    (response.body.success.b <=> \A i \in 1..Len(units) : units[i].outcome.success)

C1_Witness ==
  /\ Aggregated /\ Len(units) = 2
  /\ units[1].outcome.success /\ ~units[2].outcome.success
  /\ ~response.body.success.b

\* C2: a recipient's failure becomes a failed Send Outcome of that recipient
\* only: the step in which one unit fails changes no other unit and produces
\* no response, and in the report every recipient has been attempted and
\* succeeded exactly when its own delivery did.
C2_FailureIsolation ==
  /\ [][(endpoint = "group" /\ pc = "awaiting") =>
          \A i \in 1..Len(units) :
            (units[i].pc # "settled" /\ units'[i].pc = "settled"
             /\ ~units'[i].outcome.success)
            => /\ \A j \in 1..Len(units) : j # i => units'[j] = units[j]
               /\ pc' = "awaiting"
               /\ response' = NoResponse]_vars
  /\ [](Aggregated =>
          /\ response.status \in {200, 207, 500}
          /\ response.body.sent_count.n + response.body.failed_count.n = Len(Recipients)
          /\ \A i \in 1..Len(units) :
               /\ units[i].transport # "none"
               /\ units[i].outcome.success <=> units[i].transport = "delivered"
               /\ units[i].outcome.recipient = Recipients[i].to_email.s)

C2_Witness ==
  /\ Aggregated /\ Len(units) = 2
  /\ units[1].transport = "connect_error" /\ units[2].transport = "delivered"
  /\ units[2].outcome.success
  /\ calls.sendMail = 2

\* C3: while any recipient's unit is pending no response exists; a report
\* accounts for every recipient.
C3_ReportAfterAllSettled ==
  (endpoint = "group" /\ GroupAnnouncementSchemaValid(body)) =>
    /\ (\E i \in 1..Len(units) : units[i].pc # "settled") => response = NoResponse
    /\ response # NoResponse =>
         /\ Len(units) = Len(Recipients)
         /\ \A i \in 1..Len(units) : ~units[i].outcome.pending
         /\ response.body.sent_count.n + response.body.failed_count.n = Len(Recipients)

C3_Witness ==
  /\ Aggregated /\ Len(units) = 2
  /\ units[1].transport = "delivered" /\ units[2].transport = "delivered"
  /\ response.body.sent_count.n = 2

\* C4: the status of a report is 200 exactly when no recipient failed, 500
\* exactly when there is a recipient and all failed, 207 exactly when one
\* succeeded and one failed.
C4_StatusClassification ==
  Aggregated =>
    /\ response.status = 200 <=> UnitsFailed = {}
    /\ response.status = 500 <=> (Len(units) >= 1 /\ UnitsSucceeded = {})
    /\ response.status = 207 <=> (UnitsSucceeded # {} /\ UnitsFailed # {})

C4_Witness ==
  /\ Aggregated
  /\ UnitsSucceeded # {} /\ UnitsFailed # {}
  /\ response.status = 207

\* C5: an empty recipient list makes no send and is answered 200 with
\* success = true, sent_count = 0, failed_count = 0.
C5_ZeroRecipients ==
  (endpoint = "group" /\ GroupAnnouncementSchemaValid(body) /\ Len(Recipients) = 0) =>
    /\ calls.sendMail = 0 /\ calls.connect = 0 /\ calls.send = 0
    /\ pc = "done" =>
         /\ response.status = 200
         /\ response.body.success = Bool(TRUE)
         /\ response.body.sent_count = Num(0)
         /\ response.body.failed_count = Num(0)

C5_Witness == Aggregated /\ Len(Recipients) = 0 /\ response.status = 200

\* C6 (as claimed): when all N recipients succeed the report is success = true,
\* sent_count = N, failed_count = 0, N message ids, and has no errors field.
C6_AllSucceedNoErrorsField ==
  (Aggregated /\ Len(units) >= 1 /\ UnitsFailed = {}) =>
    /\ response.body.success = Bool(TRUE)
    /\ response.body.sent_count = Num(Len(units))
    /\ response.body.failed_count = Num(0)
    /\ Len(response.body.message_ids.a) = Len(units)
    /\ "errors" \notin DOMAIN response.body

\* C7: every position of the recipient list, duplicates included, has exactly
\* one Send Outcome in the report: sent_count + failed_count = N.
C7_OneOutcomePerPosition ==
  Aggregated =>
    /\ Len(units) = Len(Recipients)
    /\ response.body.sent_count.n = Cardinality(UnitsSucceeded)
    /\ response.body.failed_count.n = Cardinality(UnitsFailed)
    /\ response.body.sent_count.n + response.body.failed_count.n = Len(Recipients)

C7_Witness ==
  /\ Aggregated /\ Len(Recipients) = 2
  /\ Recipients[1] = Recipients[2]
  /\ response.body.sent_count.n + response.body.failed_count.n = 2

\* C8: the errors list has one entry per failed recipient, in list order,
\* each "<that recipient's address>: <that recipient's error>".
C8_ErrorsAttributed ==
  Aggregated =>
    LET errors == response.body.errors.a
        Rank(i) == Cardinality({j \in UnitsFailed : j <= i})
    IN /\ Len(errors) = Cardinality(UnitsFailed)
       /\ \A i \in UnitsFailed :
            errors[Rank(i)] =
              Recipients[i].to_email.s \o <<":", " ">> \o TransportError(units[i])

C8_Witness ==
  /\ Aggregated /\ Len(units) = 2
  /\ Recipients[1].to_email # Recipients[2].to_email
  /\ units[1].transport = "send_error" /\ units[2].transport = "connect_error"
  /\ Len(response.body.errors.a) = 2

\* The body of an answered /mail/send or /mail/group-announcement request
\* failed its schema.
SchemaRejected ==
  /\ pc = "done"
  /\ \/ endpoint = "send" /\ ~MailSendRequestValid(body)
     \/ endpoint = "group" /\ ~GroupAnnouncementSchemaValid(body)

\* C9 (as claimed): a body that fails schema validation is answered 400 on
\* /mail/send and on /mail/group-announcement.
C9_SchemaFailureIs400 == SchemaRejected => response.status = 400

\* A /mail/send or /mail/validate request whose body passes the schema and
\* names a template that is not available.
UnknownTemplateRequest ==
  \/ endpoint = "send" /\ MailSendRequestValid(body)
       /\ body.template_name = Str(TemplateInvalid)
  \/ endpoint = "validate" /\ MailValidateRequestValid(body)
       /\ body.template_name = Str(TemplateInvalid)

\* C10: an unknown template name on /mail/send or /mail/validate loads no
\* template and attempts no send, and is answered 400 with an error that
\* contains "Invalid template name".
C10_UnknownTemplateRejected ==
  UnknownTemplateRequest =>
    /\ calls = NoCalls
    /\ DOMAIN templateCache \subseteq {FileGroupHtml}
    /\ pc = "done"
    /\ response.status = 400
    /\ Includes(response.body.error.s, InvalidTemplateName)
    /\ \/ endpoint = "send" /\ response.body.success = Bool(FALSE)
       \/ endpoint = "validate" /\ response.body.valid = Bool(FALSE)

C10_Witness ==
  /\ UnknownTemplateRequest /\ endpoint = "validate"
  /\ response.status = 400

\* ---------------------------------------- claims on the directly called parts

\* A direct call of TemplateProcessor.process has ended; its two arguments.
ProcessCalled == invocation.op = "process" /\ invocation.pc = "done"
ProcessedTemplate == invocation.args[1]
ProcessedData == invocation.args[2]

DataHas(data, key) == \E i \in 1..Len(data) : data[i].key = key
DataValue(data, key) == data[CHOOSE i \in 1..Len(data) : data[i].key = key].value

\* The truthiness the specification gives a value: defined, not the empty
\* string, not false.
DefinedNonEmptyNotFalse(v) ==
  v.t # "undefined" /\ v # Str(<<>>) /\ v # Bool(FALSE)

\* C11: for a key of the data with a scalar or undefined value, the block
\* {{#key}}BODY{{/key}} is replaced by BODY exactly when the value is defined,
\* not the empty string and not false, and by nothing otherwise. Stated on
\* p{{#a}}x{{/a}}q, whose body is a fixed text. The code drops the block for
\* the number 0.
C11_BlockKeptIffDefinedNonEmptyNotFalse ==
  (/\ ProcessCalled
   /\ ProcessedTemplate = RenderBlock
   /\ DataHas(ProcessedData, <<"a">>)
   /\ callResult.t = "returned")
  => callResult.value =
       Str(IF DefinedNonEmptyNotFalse(DataValue(ProcessedData, <<"a">>))
           THEN <<"p", "x", "q">> ELSE <<"p", "q">>)

\* The string form of a value, the empty text for undefined and for a name
\* that is not a key of the data.
StringFormOrEmpty(data, key) ==
  IF DataHas(data, key) /\ DataValue(data, key).t # "undefined"
  THEN ToStringValue(DataValue(data, key))
  ELSE <<>>

\* C12: every occurrence of {{key}} is replaced by the string form of the
\* key's value, for strings, numbers and booleans alike, and by the empty text
\* when the value is undefined or the name is not a key of the data. Stated on
\* {{a}}-{{a}}. The code substitutes the empty text for 0 and for false.
C12_VariableReplacedByStringForm ==
  (/\ ProcessCalled
   /\ ProcessedTemplate = RenderTwice
   /\ callResult.t = "returned")
  => callResult.value =
       Str(StringFormOrEmpty(ProcessedData, <<"a">>) \o <<"-">>
           \o StringFormOrEmpty(ProcessedData, <<"a">>))

\* C13: a block whose name is not a key of the data is stripped with its
\* body, also when blocks of different names are nested or in sequence, and
\* the text outside the block stays as it was. The cleanup of the code ends
\* the outer block of a nesting at the closing marker of the inner block, so
\* the rest of the outer body (the 3 of the nested template) stays.
C13_MissingBlocksStripped ==
  (/\ ProcessCalled
   /\ callResult.t = "returned"
   /\ ~DataHas(ProcessedData, <<"a">>)
   /\ ~DataHas(ProcessedData, <<"b">>))
  => /\ ProcessedTemplate = RenderNested => callResult.value = Str(<<"4">>)
     /\ ProcessedTemplate = RenderSequential
          => callResult.value = Str(<<" ", " ", "3">>)
     /\ ProcessedTemplate = RenderMissing
          => callResult.value = Str(<<"H", "i", " ", " ">>)

\* C14: process returns a text for every template and every flat data object,
\* it never throws. The code builds a regular expression from each key, and
\* a key such as "(" makes new RegExp throw.
C14_ProcessNeverThrows == ProcessCalled => callResult.t = "returned"

\* C15: once a load of a name has succeeded, every later load of the name
\* returns the same text without a lookup in the KV namespace, until
\* clearCache; only clearCache removes an entry. A load returns the cache
\* entry of its name when there is one, so the claim is: a request that finds
\* the name cached makes no lookup, and a cached text stays as it is until
\* clearCache. The second part fails in the code: the loads of the recipients
\* of one announcement all miss the empty cache before any of them has read
\* the template, each caches what its own lookup gave, and a later one
\* replaces the text an earlier one has cached and returned.
C15_CacheLifecycle ==
  /\ [][(pc = "idle" /\ pc' # "idle" /\ FileGroupHtml \in DOMAIN templateCache)
         => calls'.kvGet = 0]_vars
  /\ [][invocation'.op # "clearCache"
         => \A k \in DOMAIN templateCache :
              k \in DOMAIN templateCache' /\ templateCache'[k] = templateCache[k]]_vars

\* A direct call of one of the three TemplateService methods has ended.
TemplateServiceCalled ==
  /\ invocation.op \in {"loadTemplate", "processTemplate", "validateTemplateData"}
  /\ invocation.pc = "done"
CalledName == invocation.args[1]
CalledData == invocation.args[2]

\* C16: loadTemplate of an available name never fails because of the KV
\* namespace: when env has no TEMPLATES_KV, or the lookup resolves to null or
\* rejects, the call returns the compiled-in template.
C16_FallbackWhenStoreFails ==
  (/\ TemplateServiceCalled
   /\ invocation.op = "loadTemplate"
   /\ IsAvailableTemplate(CalledName))
  => /\ callResult.t = "returned"
     /\ invocation.kv \in {"unbound", "null", "throw"}
          => callResult.value = Str(FallbackGroupTemplate)

C16_Witness ==
  /\ TemplateServiceCalled
  /\ invocation.op = "loadTemplate"
  /\ CalledName = TemplateGroup
  /\ invocation.kv = "throw"
  /\ callResult = Returned(Str(FallbackGroupTemplate))

\* C17: loadTemplate, processTemplate and validateTemplateData of a name that
\* is not available fail with "Template not found" (the two loads reject with
\* it, the validation reports it), and nothing is cached for the name. The
\* code's message is "Failed to load template <name>: Error: Template file
\* <text> not found", <text> being undefined or the text of the member the
\* name inherits, which does not hold "Template not found".
C17_UnknownNameNotFound ==
  (TemplateServiceCalled /\ ~IsAvailableTemplate(CalledName))
  => /\ TemplateFile(CalledName) \notin DOMAIN templateCache
     /\ IF invocation.op = "validateTemplateData"
        THEN /\ callResult.t = "returned"
             /\ ~callResult.value.valid
             /\ Includes(callResult.value.error.s, TemplateNotFound)
        ELSE /\ callResult.t = "threw"
             /\ Includes(callResult.message, TemplateNotFound)

\* C18: validateTemplateData of an available name returns valid = true and
\* no error for every data object. In the code a data object with a key new
\* RegExp rejects makes process throw, and the validation reports invalid.
C18_ValidForEveryData ==
  (/\ TemplateServiceCalled
   /\ invocation.op = "validateTemplateData"
   /\ IsAvailableTemplate(CalledName))
  => callResult = Returned([valid |-> TRUE, error |-> Undefined])

\* C19: validateTemplateData of the group template with a data object
\* without from_name, rating and message returns valid = false and an error
\* that holds "Missing required". The code checks no field: it returns
\* valid = true.
C19_MissingFieldsReported ==
  (/\ TemplateServiceCalled
   /\ invocation.op = "validateTemplateData"
   /\ CalledName = TemplateGroup
   /\ ~DataHas(CalledData, KeyFromName)
   /\ ~DataHas(CalledData, KeyRating)
   /\ ~DataHas(CalledData, KeyMessage))
  => /\ callResult.t = "returned"
     /\ ~callResult.value.valid
     /\ Includes(callResult.value.error.s, MissingRequired)

\* A direct call of sendMail has ended; its argument.
SendMailCalled == invocation.op = "sendMail" /\ invocation.pc = "done"
CalledConfig == invocation.args[1]

\* C20: sendMail never rejects: it resolves to success with a message id and
\* no error, or to a failure with an error and no message id, also for a
\* config the schema rejects and when connect or send raises.
C20_SendMailNeverRejects ==
  SendMailCalled
  => /\ callResult.t = "returned"
     /\ \/ /\ callResult.value.success
           /\ callResult.value.messageId.t = "string"
           /\ callResult.value.error = Undefined
        \/ /\ ~callResult.value.success
           /\ callResult.value.error.t = "string"
           /\ callResult.value.messageId = Undefined
     /\ ~MailConfigValid(CalledConfig) => ~callResult.value.success

C20_Witness ==
  /\ SendMailCalled
  /\ CalledConfig.from = EmailInvalid
  /\ callResult = Returned(SendFailure(ZodErrorMessage))

\* ------------------------------------------------- claims on the dispatch

\* C21: two successful sendMail calls return different message ids, so the
\* message_ids of a report hold no duplicate. The id of the code is made of
\* Date.now() and of a Math.random() draw: two sends that read the same
\* millisecond and draw the same number get the same id.
C21_MessageIdsDistinct ==
  Aggregated =>
    \A i, j \in 1..Len(response.body.message_ids.a) :
      response.body.message_ids.a[i] = response.body.message_ids.a[j] => i = j

\* The units of a dispatch whose sendMail is in flight: they hold the mail.
UnitsSending ==
  {i \in 1..Len(units) : units[i].pc \in {"connecting", "sending"}}

\* The mail of a recipient written out: the text of the group template with
\* the group name, the recipient's name, the sender, the rating as a text,
\* the message and, when there is one, the note; dash is the dash of the
\* template text the unit loaded (KV blob or compiled-in).
ExpectedHtml(data, recipient, dash) ==
  data.group_name.s \o <<"|">> \o data.group_name.s \o <<" ">>
    \o recipient.to_name.s \o <<",">> \o data.from_name.s \o <<":">>
    \o NumberToString(data.rating.n) \o <<" ", "/", " ", "1", "0", " ">>
    \o dash \o <<" ">> \o data.message.s
    \o (IF data.note.t = "string" /\ data.note.s # <<>>
        THEN <<"(">> \o data.note.s \o <<")">> ELSE <<>>)

\* C22: the mail of each recipient of a dispatch goes to that recipient's own
\* address, and its HTML is the group template with that recipient's own
\* name and the shared fields of the event, whatever the other units do; the
\* html a callback is about to pass to sendMail is that text already.
C22_OwnAddressOwnName ==
  (endpoint = "group" /\ pc = "awaiting") =>
    /\ \A i \in UnitsSending :
         /\ units[i].config.to = Recipients[i].to_email.s
         /\ units[i].config.html \in
              {ExpectedHtml(body.data, Recipients[i], <<"-">>),
               ExpectedHtml(body.data, Recipients[i], <<"a", "E", "-">>)}
    /\ \A i \in 1..Len(units) :
         units[i].pc = "processed"
         => units[i].awaited.s \in
              {ExpectedHtml(body.data, Recipients[i], <<"-">>),
               ExpectedHtml(body.data, Recipients[i], <<"a", "E", "-">>)}

C22_Witness ==
  /\ endpoint = "group" /\ pc = "awaiting"
  /\ UnitsSending = {1, 2}
  /\ Recipients[1].to_name # Recipients[2].to_name
  /\ body.data.note.t = "string"
  /\ units[1].config.html # units[2].config.html
  /\ Includes(units[2].config.html, Recipients[2].to_name.s)

\* C23: when every recipient's template lookup and send settle in the end, a
\* dispatch returns its report in the end, and no report is returned while a
\* started unit has not run to its end (no unit is cancelled or timed out).
C23_DispatchReturns ==
  /\ (endpoint = "group" /\ pc = "awaiting")
       ~> (endpoint = "group" /\ pc = "done" /\ response # NoResponse)
  /\ []((endpoint = "group" /\ response # NoResponse /\ pc = "done")
         => \A i \in 1..Len(units) :
              units[i].pc = "settled" /\ units[i].transport # "none")

C23_Witness ==
  /\ Aggregated /\ Len(units) = 2
  /\ units[1].transport = "connect_error" /\ units[2].transport = "send_error"
  /\ response.status = 500

\* The text before the first | of a text that holds one.
BeforeBar(text) == SubSeq(text, 1, IndexOfChar(text, "|", 1) - 1)
AfterBar(text) == Tail2(text, IndexOfChar(text, "|", 1) + 1)

\* C24: when the block of a truthy key is retained, the variable markers in
\* its body are substituted exactly like the same markers outside any block.
\* Stated on {{#a}}{{a}}{{b}}{{/a}}|{{a}}{{b}}: for a truthy a the text before
\* the bar (the retained body) equals the text after it (the markers outside),
\* and both start with the string form of a followed, when b is truthy too,
\* by the string form of b.
C24_MarkersInRetainedBodySubstituted ==
  (/\ ProcessCalled
   /\ ProcessedTemplate = RenderInside
   /\ DataHas(ProcessedData, <<"a">>)
   /\ Truthy(DataValue(ProcessedData, <<"a">>))
   /\ callResult.t = "returned")
  => /\ IndexOfChar(callResult.value.s, "|", 1) # 0
     /\ BeforeBar(callResult.value.s) = AfterBar(callResult.value.s)
     /\ AfterBar(callResult.value.s) =
          ToStringValue(DataValue(ProcessedData, <<"a">>))
          \o (IF /\ DataHas(ProcessedData, <<"b">>)
                  /\ Truthy(DataValue(ProcessedData, <<"b">>))
               THEN ToStringValue(DataValue(ProcessedData, <<"b">>))
               ELSE <<>>)

C24_Witness ==
  /\ ProcessCalled
  /\ ProcessedTemplate = RenderInside
  /\ ProcessedData = <<[key |-> <<"a">>, value |-> Str(<<"x">>)],
                       [key |-> <<"b">>, value |-> Num(7)]>>
  /\ callResult = Returned(Str(<<"x", "7", "|", "x", "7">>))

\* C25: when the loads of two recipients of one announcement both miss the
\* cache and both populate it, both writes carry the same text. A unit that
\* awaits its lookup missed the cache when the dispatch started, so an entry
\* it finds on its write was written by another load of the same dispatch;
\* the claim is that its own write leaves that entry as it is. In the code
\* each load caches what its own lookup gave: the KV text when the lookup
\* resolved to it, the compiled-in text when it resolved to null or rejected,
\* and the two texts differ.
C25_ConcurrentWritesSameContent ==
  [][\A i \in 1..Len(units) :
       (/\ endpoint = "group" /\ pc = "awaiting"
        /\ units[i].pc = "reading"
        /\ units'[i].pc # "reading"
        /\ FileGroupHtml \in DOMAIN templateCache
        /\ FileGroupHtml \in DOMAIN templateCache')
       => templateCache'[FileGroupHtml] = templateCache[FileGroupHtml]]_vars

\* A unit whose callback has been called: it awaits its lookup, the return of
\* loadTemplate or the return of processTemplate, is inside sendMail, or has
\* returned.
UnitStarted(unit) ==
  unit.pc \in {"reading", "loaded", "processed", "connecting", "sending", "settled"}

\* C26: all recipient units of a dispatch are started without waiting for an
\* earlier unit to settle: while the handler awaits, every recipient has a
\* started unit, whatever the state of the units before it, and the start of
\* the dispatch has called loadTemplate for every recipient. (That sends are
\* in flight together and settle in any order is the reachability of
\* C26_Witness: the second recipient's send has settled while the first
\* recipient's is in flight.)
C26_AllUnitsStartedTogether ==
  (endpoint = "group" /\ pc = "awaiting")
  => /\ Len(units) = Len(Recipients)
     /\ calls.loadTemplate = Len(Recipients)
     /\ \A j \in 1..Len(units) : UnitStarted(units[j])

C26_Witness ==
  /\ endpoint = "group" /\ pc = "awaiting"
  /\ Len(units) = 2
  /\ units[1].pc = "sending"
  /\ units[2].pc = "settled" /\ units[2].outcome.success

\* The recipients whose unit has called mailer.send.
SendAttempted ==
  {i \in 1..Len(units) :
     units[i].pc = "sending" \/ units[i].transport \in {"delivered", "send_error"}}

\* C27: no retry. In a dispatch sendMail and connect are called at most once
\* per recipient and mailer.send exactly once for every recipient whose unit
\* got that far; a unit that has settled, failed or not, stays as it settled
\* for the rest of the dispatch; and the report counts every failed unit.
C27_NoRetry ==
  /\ []((endpoint = "group" /\ pc \in {"awaiting", "done"})
         => /\ calls.sendMail <= Len(units)
            /\ calls.connect <= Len(units)
            /\ calls.send = Cardinality(SendAttempted))
  /\ [][\A i \in 1..Len(units) :
          (units[i].pc = "settled" /\ pc' # "idle")
          => (i \in 1..Len(units') /\ units'[i] = units[i])]_vars
  /\ [](Aggregated => response.body.failed_count.n = Cardinality(UnitsFailed))

C27_Witness ==
  /\ Aggregated
  /\ Len(units) = 2
  /\ units[1].transport = "send_error" /\ ~units[1].outcome.success
  /\ units[2].transport = "delivered"
  /\ calls.send = 2
  /\ response.body.failed_count.n = 1

\* The payload of the announcement is structurally invalid in one of the ways
\* the requests of the model are: from_name is missing, the rating is not a
\* number from 0 to 10, or a recipient's address is not an e-mail address.
PayloadInvalid ==
  \/ body.data.from_name = Undefined
  \/ body.data.rating.t # "number"
  \/ body.data.rating.t = "number" /\ body.data.rating.n \notin 0..10
  \/ \E i \in 1..Len(Recipients) : Recipients[i].to_email = Str(EmailInvalid)

\* C28: a structurally invalid payload is rejected before any recipient is
\* processed: the request is answered at once, no recipient has a unit, and
\* no template is loaded, no lookup made and no send attempted, also when
\* some recipients of the payload are valid.
C28_InvalidPayloadTouchesNothing ==
  (endpoint = "group" /\ PayloadInvalid)
  => /\ pc = "done"
     /\ units = <<>>
     /\ calls = NoCalls
     /\ response # NoResponse

C28_Witness ==
  /\ endpoint = "group" /\ pc = "done"
  /\ body.data.from_name = Str(NameJane)
  /\ body.data.rating = Num(8)
  /\ Len(Recipients) = 2
  /\ Recipients[1].to_email = Str(EmailJohn)
  /\ Recipients[2].to_email = Str(EmailInvalid)
  /\ units = <<>> /\ calls = NoCalls

\* C29: every response body of the group-announcement handler, the one of
\* its catch included, has success = (failed_count = 0). The body of the
\* catch has success false with failed_count 0.
C29_SuccessIffNoFailedCount ==
  (endpoint = "group" /\ response # NoResponse)
  => (response.body.success.b <=> response.body.failed_count.n = 0)

\* The rank of position i among the positions of the set that are not after it.
RankIn(positions, i) == Cardinality({j \in positions : j <= i})

\* C30: message_ids and errors follow the order of the recipients in the
\* request, whatever the order in which the sends settled: the k-th id is the
\* id of the k-th recipient that succeeded, the k-th error starts with the
\* address of the k-th recipient that failed, and nothing else is in the
\* lists, so the report is determined by the outcomes of the positions.
C30_ReportInRecipientOrder ==
  Aggregated =>
    /\ Len(response.body.message_ids.a) = Cardinality(UnitsSucceeded)
    /\ \A i \in UnitsSucceeded :
         response.body.message_ids.a[RankIn(UnitsSucceeded, i)]
           = units[i].outcome.messageId.s
    /\ Len(response.body.errors.a) = Cardinality(UnitsFailed)
    /\ \A i \in UnitsFailed :
         StartsWithAt(response.body.errors.a[RankIn(UnitsFailed, i)], 1,
                      Recipients[i].to_email.s \o <<":", " ">>)

\* Both recipients succeeded with different ids, the second recipient's send
\* having settled first.
C30_Witness ==
  /\ Aggregated
  /\ Len(units) = 2
  /\ units[2].order = 1 /\ units[1].order = 2
  /\ units[1].outcome.success /\ units[2].outcome.success
  /\ units[1].outcome.messageId # units[2].outcome.messageId
  /\ response.body.message_ids.a
       = <<units[1].outcome.messageId.s, units[2].outcome.messageId.s>>

====
